---------------------------- MODULE Spec2Model ----------------------------
(***************************************************************************)
(* Model of the e-waste dataset wrangling notebook                         *)
(* (src/week1/.virtual_documents/Untitled.ipynb): cleanup of the three      *)
(* splits, statistics, sample preview, augmentation of the training         *)
(* classes up to TARGET_COUNT, and the recount.                             *)
(*                                                                         *)
(* A file name is the sequence of its code points, so that lower(),         *)
(* endswith(), sorted() and the f-string that builds an augmented name are  *)
(* computed as Python computes them.  A file's content records what the     *)
(* imaging library does with it: whether Image.open + verify() succeed,     *)
(* whether the pixel data decode (convert('RGB'), imshow), and an abstract  *)
(* pixel value.                                                            *)
(***************************************************************************)
EXTENDS Integers, Sequences, FiniteSets, TLC

VARIABLES
    fs,               \* the dataset: split -> [sub: class -> (name -> content), files: names]
    pc,               \* position of the script
    calls,            \* step 1: the splits still to clean
    base_path,        \* remove_corrupted_and_non_images: its argument
    classes,          \* the class list still to visit (cleanup loop, step 5 loop)
    cls,              \* the class being visited
    listing,          \* cleanup: names of os.listdir(cls_path) still to inspect
    train_stats, val_stats, test_stats, train_stats_post,
    images,           \* augment_class_images: os.listdir(class_path) read at entry
    target_count,     \* augment_class_images: its argument
    img_name,         \* augment_class_images: the last source picked
    fs5               \* history: the dataset when step 5 starts

vars == <<fs, pc, calls, base_path, classes, cls, listing, train_stats, val_stats,
          test_stats, train_stats_post, images, target_count, img_name, fs5>>

-----------------------------------------------------------------------------
(* Bounds of the model *)

\* TARGET_COUNT = 500 in the notebook, scaled down
TARGET_COUNT == 3
\* how many of the 90000 values of random.randint(10000, 99999) are drawn
SuffixChoices == 2
\* number of abstract pixel values an image can have
NumPix == 2
\* largest target_count the stand-alone augmentation runs are started with
MaxTarget == 4

\* program constants
RAND_LO == 10000
SAMPLE_N == 5

-----------------------------------------------------------------------------
(* Strings *)

\* str.lower() on code points: 'A'..'Z' (65..90) become 'a'..'z'
lower(s) == [i \in DOMAIN s |-> IF s[i] \in 65..90 THEN s[i] + 32 ELSE s[i]]

\* str.endswith(suffix)
endswith(s, suf) ==
    /\ Len(s) >= Len(suf)
    /\ SubSeq(s, Len(s) - Len(suf) + 1, Len(s)) = suf

\* the tuple ('jpg', 'jpeg', 'png') of lines 30 and 39
IMAGE_SUFFIXES == { <<106,112,103>>, <<106,112,101,103>>, <<112,110,103>> }

\* f.lower().endswith(('jpg', 'jpeg', 'png'))
IsImageName(f) == \E suf \in IMAGE_SUFFIXES : endswith(lower(f), suf)

\* the decimal digits of n, as str(n) / an f-string field writes them
RECURSIVE Digits(_)
Digits(n) == IF n < 10 THEN <<48 + n>> ELSE Digits(n \div 10) \o <<48 + (n % 10)>>

\* "aug_"
AUG_PREFIX == <<97,117,103,95>>

\* new_name with the random suffix left out of the name: always the same number
new_name_fixed_suffix(n, name) == AUG_PREFIX \o Digits(RAND_LO) \o <<95>> \o name

\* f"aug_{random.randint(10000,99999)}_{img_name}"
new_name(n, name) == AUG_PREFIX \o Digits(n) \o <<95>> \o name

\* the values random.randint(10000, 99999) is drawn from in the model
Suffixes == RAND_LO .. (RAND_LO + SuffixChoices - 1)

\* s < t on Python strings: lexicographic on code points
Less(s, t) ==
    \E i \in 1..Len(t) :
        /\ i <= Len(s) + 1
        /\ \A j \in 1..(i-1) : s[j] = t[j]
        /\ (i = Len(s) + 1 \/ s[i] < t[i])

\* sorted(S)
RECURSIVE sorted(_)
sorted(S) ==
    IF S = {} THEN <<>>
    ELSE LET m == CHOOSE x \in S : \A y \in S \ {x} : Less(x, y)
         IN  <<m>> \o sorted(S \ {m})

\* os.path.splitext(name)[1]: from the last dot on, "" without a dot
\* (a leading dot starts no extension)
splitext(name) ==
    LET dots == { i \in 2..Len(name) : name[i] = 46 }
    IN  IF dots = {} THEN <<>>
        ELSE LET d == CHOOSE i \in dots : \A j \in dots : j <= i
             IN  SubSeq(name, d, Len(name))

-----------------------------------------------------------------------------
(* Files and the imaging library *)

Pixels == 0 .. (NumPix - 1)

\* a file that Image.open/verify() accept and whose pixel data decode
Good(px) == [verify |-> TRUE, load |-> TRUE, px |-> px]
\* a file with a valid header and damaged pixel data: verify() passes, decoding raises
Trunc == [verify |-> TRUE, load |-> FALSE, px |-> 0]
\* garbage: Image.open raises
Bad == [verify |-> FALSE, load |-> FALSE, px |-> 0]

\* Image.open(fpath); img.verify() raises nothing
Verifies(c) == c.verify

\* Image.open(img_path).convert('RGB') raises nothing
Decodes(c) == c.load

\* the transform chain applied to an image; r stands for the random draws
\* (rotation angle, jitter factors, translation) of one application
augmentations(img, r) == (img + r) % NumPix

Params == 0 .. (NumPix - 1)

\* Image.save picks the writer from the extension of the file name and raises
\* ValueError, before creating anything, when the extension is not registered
SAVE_EXTENSIONS == { <<46>> \o suf : suf \in IMAGE_SUFFIXES }
SaveFormatKnown(name) == lower(splitext(name)) \in SAVE_EXTENSIONS

\* os.listdir(class directory)
listdir(d) == DOMAIN d

\* os.listdir(base_path): class directories and plain files
listdir_split(base) == DOMAIN fs[base].sub \cup fs[base].files

\* os.path.isdir(os.path.join(base_path, d))
isdir(base, d) == d \in DOMAIN fs[base].sub

\* list_classes(base_path)
list_classes(base) == sorted({ d \in listdir_split(base) : isdir(base, d) })

\* count_images_in_classes(base_path): the dict, as the sequence of its items
count_images_in_classes(base) ==
    LET cl == list_classes(base)
    IN  [i \in 1..Len(cl) |->
            <<cl[i], Cardinality({ f \in listdir(fs[base].sub[cl[i]]) : IsImageName(f) })>>]

\* os.remove(fpath)
remove(d, fname) == [f \in DOMAIN d \ {fname} |-> d[f]]

\* aug_img.save(path): creates the file, or overwrites the one of that name
save(d, name, c) == [f \in DOMAIN d \cup {name} |-> IF f = name THEN c ELSE d[f]]

\* the dataset with class directory c of split s replaced by d
WithDir(s, c, d) == [fs EXCEPT ![s].sub[c] = d]

-----------------------------------------------------------------------------
(* The dataset the script is started on *)

TRAIN_DIR == "train"
VAL_DIR == "val"
TEST_DIR == "test"

A_JPG == <<97,46,106,112,103>>          \* "a.jpg"
B_PNG == <<98,46,80,78,71>>             \* "b.PNG"
D_JPEG == <<100,46,106,112,101,103>>    \* "d.jpeg"
NOTES_TXT == <<110,46,116,120,116>>     \* "n.txt"
C_JPG == <<99,106,112,103>>             \* "cjpg": no dot, no extension
AUG_A_JPG == new_name(RAND_LO, A_JPG)   \* "aug_10000_a.jpg", left by an earlier run
CAT == <<99,97,116>>                    \* class "cat"
DOG == <<100,111,103>>                  \* class "dog"
README == <<82,69,65,68,77,69>>         \* a plain file lying in a split directory

\* every directory holding some of the names of ch, each with one of its contents
Dirs(ch) ==
    UNION { { d \in [S -> UNION { ch[f] : f \in S }] : \A f \in S : d[f] \in ch[f] }
            : S \in SUBSET DOMAIN ch }

CatFiles == (A_JPG :> {Good(0), Bad, Trunc}) @@ (NOTES_TXT :> {Good(0)})
            @@ (C_JPG :> {Good(0)}) @@ (AUG_A_JPG :> {Good(1)})
DogFiles == (B_PNG :> {Good(0), Trunc}) @@ (D_JPEG :> {Bad})
ValFiles == (A_JPG :> {Good(0), Bad}) @@ (NOTES_TXT :> {Bad})
TestFiles == (B_PNG :> {Good(0)})

NoName == <<>>
NoDir == <<>>

Init ==
    /\ \E cat \in Dirs(CatFiles), dog \in Dirs(DogFiles),
          val \in Dirs(ValFiles), test \in Dirs(TestFiles) :
          fs = [s \in {TRAIN_DIR, VAL_DIR, TEST_DIR} |->
                  IF s = TRAIN_DIR
                  THEN [sub |-> (DOG :> dog) @@ (CAT :> cat), files |-> {README}]
                  ELSE IF s = VAL_DIR
                  THEN [sub |-> (DOG :> NoDir) @@ (CAT :> val), files |-> {}]
                  ELSE [sub |-> (DOG :> test) @@ (CAT :> (B_PNG :> Good(0))), files |-> {}]]
    /\ pc = "step1"
    /\ calls = <<TRAIN_DIR, VAL_DIR, TEST_DIR>>
    /\ base_path = TRAIN_DIR
    /\ classes = <<>>
    /\ cls = NoName
    /\ listing = {}
    /\ train_stats = <<>>
    /\ val_stats = <<>>
    /\ test_stats = <<>>
    /\ train_stats_post = <<>>
    /\ images = {}
    /\ target_count = 0
    /\ img_name = NoName
    /\ fs5 = fs

-----------------------------------------------------------------------------
(* Step 1: remove_corrupted_and_non_images on train, val, test *)

\* the call of lines 112-114 and the "for cls in list_classes(base_path)" it starts
CleanupCall ==
    /\ pc = "step1"
    /\ calls # <<>>
    /\ pc' = "clean"
    /\ base_path' = Head(calls)
    /\ calls' = Tail(calls)
    /\ classes' = list_classes(Head(calls))
    /\ cls' = NoName
    /\ listing' = {}
    /\ UNCHANGED <<fs, train_stats, val_stats, test_stats, train_stats_post,
                   images, target_count, img_name, fs5>>

\* the next class of the loop: os.listdir(cls_path) is read once
CleanupClass ==
    /\ pc = "clean"
    /\ listing = {}
    /\ classes # <<>>
    /\ cls' = Head(classes)
    /\ classes' = Tail(classes)
    /\ listing' = listdir(fs[base_path].sub[Head(classes)])
    /\ UNCHANGED <<fs, pc, calls, base_path, train_stats, val_stats, test_stats,
                   train_stats_post, images, target_count, img_name, fs5>>

\* whether the body of the inner loop (lines 38-48) deletes fname
Deletes(fname, c) == ~IsImageName(fname) \/ ~Verifies(c)

\* one file of the listing, in whatever order os.listdir gave
CleanupFile(fname) ==
    /\ pc = "clean"
    /\ fname \in listing
    /\ listing' = listing \ {fname}
    /\ LET d == fs[base_path].sub[cls]
       IN  fs' = IF Deletes(fname, d[fname])
                 THEN WithDir(base_path, cls, remove(d, fname))
                 ELSE fs
    /\ UNCHANGED <<pc, calls, base_path, classes, cls, train_stats, val_stats,
                   test_stats, train_stats_post, images, target_count, img_name, fs5>>

\* remove_corrupted_and_non_images returns; after the third call step 2 follows
CleanupReturn ==
    /\ pc = "clean"
    /\ listing = {}
    /\ classes = <<>>
    /\ pc' = IF calls = <<>> THEN "step2" ELSE "step1"
    /\ cls' = NoName
    /\ UNCHANGED <<fs, calls, base_path, classes, listing, train_stats, val_stats,
                   test_stats, train_stats_post, images, target_count, img_name, fs5>>

-----------------------------------------------------------------------------
(* Steps 2 to 4 *)

\* Step 2: collect stats
CollectStats ==
    /\ pc = "step2"
    /\ train_stats' = count_images_in_classes(TRAIN_DIR)
    /\ val_stats' = count_images_in_classes(VAL_DIR)
    /\ test_stats' = count_images_in_classes(TEST_DIR)
    /\ pc' = "step3"
    /\ UNCHANGED <<fs, calls, base_path, classes, cls, listing, train_stats_post,
                   images, target_count, img_name, fs5>>

\* Step 3: print and plot; no state
ShowDistribution ==
    /\ pc = "step3"
    /\ pc' = "step4"
    /\ UNCHANGED <<fs, calls, base_path, classes, cls, listing, train_stats, val_stats,
                   test_stats, train_stats_post, images, target_count, img_name, fs5>>

\* list(d.keys())
keys(stats) == [i \in 1..Len(stats) |-> stats[i][1]]

Min(a, b) == IF a < b THEN a ELSE b

\* the directory of example_class = list(train_stats.keys())[0]
ExampleDir == IF train_stats = <<>> THEN NoDir ELSE fs[TRAIN_DIR].sub[keys(train_stats)[1]]

\* Step 4: show_sample_images(TRAIN_DIR, example_class): random.sample of
\* min(n, len) files, each opened and drawn; drawing decodes the pixel data, and
\* a file that does not decode ends the script with the library's exception.
\* On success the loop of step 5 starts over the keys of train_stats.
ShowSamples(files) ==
    /\ pc = "step4"
    /\ LET d == ExampleDir
       IN  /\ files \subseteq listdir(d)
           /\ Cardinality(files) = Min(SAMPLE_N, Cardinality(listdir(d)))
           /\ pc' = IF \A f \in files : Decodes(d[f]) THEN "step5" ELSE "crashed_step4"
    /\ classes' = keys(train_stats)
    /\ fs5' = fs
    /\ UNCHANGED <<fs, calls, base_path, cls, listing, train_stats, val_stats,
                   test_stats, train_stats_post, images, target_count, img_name>>

-----------------------------------------------------------------------------
(* Step 5: augmentation *)

\* Step5Dir set to the validation split
Step5DirVal == VAL_DIR

\* the split whose classes step 5 augments (line 145)
Step5Dir == TRAIN_DIR

\* the directory augment_class_images works on
ClassDir == fs[Step5Dir].sub[cls]

\* LoopCond with <= for <
LoopCondLeq(d, target) == Cardinality(listdir(d)) <= target

\* the loop condition of line 95
LoopCond(d, target) == Cardinality(listdir(d)) < target

\* SourceChoices reading the directory again in each iteration
SourceChoicesCurrent(imgs, d) == listdir(d)

\* the names random.choice(images) picks from (line 96): the listing read at
\* line 91, before the loop; d is the directory as it is now
SourceChoices(imgs, d) == imgs

\* the sources the running call can pick; none outside the call
Candidates == IF pc = "aug" THEN SourceChoices(images, ClassDir) ELSE {}

\* one pass of "for cls in train_stats": the class is augmented when it holds
\* fewer than TARGET_COUNT files
Step5Class ==
    /\ pc = "step5"
    /\ classes # <<>>
    /\ cls' = Head(classes)
    /\ classes' = Tail(classes)
    /\ LET d == fs[Step5Dir].sub[Head(classes)]
       IN  IF Cardinality(listdir(d)) < TARGET_COUNT
           THEN /\ pc' = "aug"
                /\ images' = listdir(d)
                /\ target_count' = TARGET_COUNT
                /\ img_name' = NoName
           ELSE UNCHANGED <<pc, images, target_count, img_name>>
    /\ UNCHANGED <<fs, calls, base_path, listing, train_stats, val_stats, test_stats,
                   train_stats_post, fs5>>

\* one iteration of the while loop whose attempt is made: source img, suffix n,
\* transform draws r.  A source that does not decode, or a new name whose
\* extension the library cannot write, raises inside the try: nothing is written.
AugAttempt(img, n, r) ==
    /\ pc = "aug"
    /\ LoopCond(ClassDir, target_count)
    /\ img \in Candidates
    /\ img_name' = img
    /\ LET src == ClassDir[img]
           name == new_name(n, img)
       IN  fs' = IF Decodes(src) /\ SaveFormatKnown(name)
                 THEN WithDir(Step5Dir, cls,
                              save(ClassDir, name, Good(augmentations(src.px, r))))
                 ELSE fs
    /\ UNCHANGED <<pc, calls, base_path, classes, cls, listing, train_stats, val_stats,
                   test_stats, train_stats_post, images, target_count, fs5>>

\* random.choice of an empty list raises IndexError outside the try
AugEmpty ==
    /\ pc = "aug"
    /\ LoopCond(ClassDir, target_count)
    /\ Candidates = {}
    /\ pc' = "crashed_step5"
    /\ UNCHANGED <<fs, calls, base_path, classes, cls, listing, train_stats, val_stats,
                   test_stats, train_stats_post, images, target_count, img_name, fs5>>

\* the loop condition fails: augment_class_images returns
AugReturn ==
    /\ pc = "aug"
    /\ ~LoopCond(ClassDir, target_count)
    /\ pc' = "step5"
    /\ UNCHANGED <<fs, calls, base_path, classes, cls, listing, train_stats, val_stats,
                   test_stats, train_stats_post, images, target_count, img_name, fs5>>

\* the for loop of step 5 ends
Step5End ==
    /\ pc = "step5"
    /\ classes = <<>>
    /\ pc' = "step6"
    /\ UNCHANGED <<fs, calls, base_path, classes, cls, listing, train_stats, val_stats,
                   test_stats, train_stats_post, images, target_count, img_name, fs5>>

\* Step 6: recount
Recount ==
    /\ pc = "step6"
    /\ train_stats_post' = count_images_in_classes(TRAIN_DIR)
    /\ pc' = "done"
    /\ UNCHANGED <<fs, calls, base_path, classes, cls, listing, train_stats, val_stats,
                   test_stats, images, target_count, img_name, fs5>>

Next ==
    \/ CleanupCall
    \/ CleanupClass
    \/ \E fname \in listing : CleanupFile(fname)
    \/ CleanupReturn
    \/ CollectStats
    \/ ShowDistribution
    \/ \E files \in SUBSET listdir(ExampleDir) : ShowSamples(files)
    \/ Step5Class
    \/ \E img \in Candidates, n \in Suffixes, r \in Params : AugAttempt(img, n, r)
    \/ AugEmpty
    \/ AugReturn
    \/ Step5End
    \/ Recount

Spec == Init /\ [][Next]_vars

-----------------------------------------------------------------------------
(* augment_class_images on its own: one call on a cleaned class directory,   *)
(* with any target count, under fair random draws                           *)

AugFiles == (A_JPG :> {Good(0), Trunc}) @@ (AUG_A_JPG :> {Good(1)})

AugInit ==
    /\ \E d \in Dirs(AugFiles) :
          /\ fs = [s \in {TRAIN_DIR, VAL_DIR, TEST_DIR} |->
                     IF s = TRAIN_DIR
                     THEN [sub |-> (CAT :> d), files |-> {}]
                     ELSE [sub |-> (CAT :> (B_PNG :> Good(0))), files |-> {}]]
          /\ images = listdir(d)
    /\ target_count \in 0..MaxTarget
    /\ pc = "aug"
    /\ cls = CAT
    /\ calls = <<>>
    /\ base_path = TEST_DIR
    /\ classes = <<>>
    /\ listing = {}
    /\ train_stats = <<>>
    /\ val_stats = <<>>
    /\ test_stats = <<>>
    /\ train_stats_post = <<>>
    /\ img_name = NoName
    /\ fs5 = fs

\* an iteration, with any draws
AugIteration == \E img \in Candidates, n \in Suffixes, r \in Params : AugAttempt(img, n, r)

AugNext ==
    \/ AugIteration
    \/ AugEmpty
    \/ AugReturn

\* an iteration after which the loop is still running
AugLoops == pc = "aug" /\ pc' = "aug" /\ AugIteration

\* an iteration whose draws give a name the directory does not hold yet
AugGrow ==
    \E img \in Candidates, n \in Suffixes :
        /\ pc = "aug"
        /\ new_name(n, img) \notin listdir(ClassDir)
        /\ \E r \in Params : AugAttempt(img, n, r)

\* The loop keeps running, and random.choice and random.randint draw every
\* source and every suffix again and again: as long as some draw gives a new
\* name, such a draw is eventually made.
AugFairness ==
    /\ WF_vars(AugReturn)
    /\ WF_vars(AugLoops)
    /\ WF_vars(AugGrow)

AugSpec == AugInit /\ [][AugNext]_vars /\ AugFairness

-----------------------------------------------------------------------------
(* Notions the properties are stated with *)

Range(q) == { q[i] : i \in DOMAIN q }

Max(a, b) == IF a > b THEN a ELSE b

Splits == {TRAIN_DIR, VAL_DIR, TEST_DIR}

\* ".jpg", ".jpeg", ".png"
ACCEPTED_EXTENSIONS ==
    { <<46,106,112,103>>, <<46,106,112,101,103>>, <<46,112,110,103>> }

\* the name has an accepted extension, compared case-insensitively
AcceptedExtension(f) == lower(splitext(f)) \in ACCEPTED_EXTENSIONS

\* remove_corrupted_and_non_images(s) has run to completion and step 5 has not begun
Cleaned(s) ==
    /\ pc \in {"step1", "clean", "step2", "step3", "step4"}
    /\ s \notin Range(calls)
    /\ ~(pc = "clean" /\ base_path = s)

\* step 5 has begun
InOrAfterStep5 == pc \in {"step5", "aug", "step6", "done", "crashed_step5"}

\* step 5 is over: its loop ended, or an exception ended it and the script
Step5Over == pc \in {"step6", "done", "crashed_step5"}

\* f is aug_<5 digits>_<one of names>
IsAugName(f, names) ==
    \E orig \in names :
        /\ Len(f) = Len(orig) + 10
        /\ SubSeq(f, 1, 4) = AUG_PREFIX
        /\ \A i \in 5..9 : f[i] \in 48..57
        /\ f[10] = 95
        /\ SubSeq(f, 11, Len(f)) = orig

\* the class directory as it was when step 5 (and so the call) began
DirBefore(c) == fs5[TRAIN_DIR].sub[c]
DirNow(c) == fs[TRAIN_DIR].sub[c]

\* the files the running (or last) call of augment_class_images has created
Created == listdir(DirNow(cls)) \ listdir(DirBefore(cls))

\* step 5 is through with class c
Finished(c) ==
    \/ pc \in {"step6", "done"}
    \/ pc = "step5" /\ c \notin Range(classes)

-----------------------------------------------------------------------------
(* C1 *)

\* C1: once remove_corrupted_and_non_images(split) has run to completion, every
\* file left in every class directory of the split has an accepted extension
\* (.jpg, .jpeg, .png, case-insensitive) and passes image verification.
C1_OnlyValidImagesRemain ==
    \A s \in Splits : Cleaned(s) =>
        \A c \in DOMAIN fs[s].sub : \A f \in listdir(fs[s].sub[c]) :
            AcceptedExtension(f) /\ Verifies(fs[s].sub[c][f])

(* C2 *)

\* C2: after step 5 every class directory of the training split holds at least
\* TARGET_COUNT files, whatever number of files the class held after cleanup.
C2_AllClassesReachTarget ==
    Step5Over =>
        \A c \in DOMAIN fs[TRAIN_DIR].sub : Cardinality(listdir(DirNow(c))) >= TARGET_COUNT

(* C3 *)

\* C3: step 5 leaves the validation and test splits as they were, so val_stats
\* and test_stats still are the counts of these splits after it.
C3_ValTestUnchanged ==
    InOrAfterStep5 =>
        /\ fs[VAL_DIR] = fs5[VAL_DIR]
        /\ fs[TEST_DIR] = fs5[TEST_DIR]
        /\ val_stats = count_images_in_classes(VAL_DIR)
        /\ test_stats = count_images_in_classes(TEST_DIR)

\* the script has ended, the training split has grown, the validation split holds files
C3_Witness ==
    /\ pc = "done"
    /\ fs[TRAIN_DIR] # fs5[TRAIN_DIR]
    /\ \E c \in DOMAIN fs[VAL_DIR].sub : listdir(fs[VAL_DIR].sub[c]) # {}

(* C4 *)

\* C4: augment_class_images only adds files: during and after the call every
\* file the class directory held before is still there with the content it had,
\* and every file created is named aug_<5 digits>_<name of a file of the directory>.
C4_OnlyAddsFiles ==
    InOrAfterStep5 =>
        \A c \in DOMAIN fs[TRAIN_DIR].sub :
            /\ \A f \in listdir(DirBefore(c)) :
                  f \in listdir(DirNow(c)) /\ DirNow(c)[f] = DirBefore(c)[f]
            /\ \A f \in listdir(DirNow(c)) \ listdir(DirBefore(c)) :
                  IsAugName(f, listdir(DirNow(c)))

(* C5 *)

\* C5 as stated: in each iteration the source is picked from the directory's
\* current listing, so files created by the call are among the candidates.
C5_SourceFromCurrentListing ==
    pc = "aug" => SourceChoices(images, ClassDir) = listdir(ClassDir)

\* C5 as amended: the source of every iteration is picked from the listing read
\* once when the call began; a name created by the call is never picked.
C5_SourceFromInitialListing ==
    (pc = "aug" /\ img_name # NoName) =>
        /\ img_name \in listdir(DirBefore(cls))
        /\ img_name \notin Created

\* a second file has been created by the same call: its source was picked after
\* the first one existed
C5_Witness ==
    /\ pc = "aug"
    /\ img_name # NoName
    /\ Cardinality(Created) >= 2

(* C6 *)

\* the attempt with source img raises: the source does not decode, or the new
\* name (which ends as img does) has an extension the library cannot write
AttemptFails(img, d) == ~Decodes(d[img]) \/ ~SaveFormatKnown(new_name(RAND_LO, img))

\* C6: a failing attempt is caught, leaves the files as they are and the loop
\* goes on; no exception leaves augment_class_images, whatever the directory holds.
C6_FailureNeverAborts ==
    [][ pc = "aug" =>
          /\ pc' \in {"aug", "step5"}
          /\ (pc' = "aug" /\ AttemptFails(img_name', ClassDir)) => fs' = fs
      ]_vars

(* C7 *)

\* what count_images_in_classes(s) is to return on the dataset as it is
StatsAsSpecified(stats, s) ==
    /\ Len(stats) = Cardinality(DOMAIN fs[s].sub)
    /\ { stats[i][1] : i \in DOMAIN stats } = DOMAIN fs[s].sub
    /\ \A i, j \in DOMAIN stats : i < j => Less(stats[i][1], stats[j][1])
    /\ \A i \in DOMAIN stats :
          stats[i][2] = Cardinality({ f \in listdir(fs[s].sub[stats[i][1]]) :
                                        AcceptedExtension(f) })

\* C7: count_images_in_classes(split) returns the subdirectory names of the
\* split in sorted order, each with the number of files of that class directory
\* that have an accepted extension; it changes no file.
C7_CountsAsSpecified ==
    /\ pc = "step3" =>
          /\ StatsAsSpecified(train_stats, TRAIN_DIR)
          /\ StatsAsSpecified(val_stats, VAL_DIR)
          /\ StatsAsSpecified(test_stats, TEST_DIR)
    /\ pc = "done" => StatsAsSpecified(train_stats_post, TRAIN_DIR)

(* C8 *)

\* C8: cleanup keeps every file that has an accepted extension and passes
\* verification (no step of it removes or alters one), and once it has run on a
\* split no file with another extension is left in a class directory of it.
C8_CleanupKeepsValidRemovesOthers ==
    [][ /\ pc = "clean" =>
             \A s \in Splits : \A c \in DOMAIN fs[s].sub : \A f \in listdir(fs[s].sub[c]) :
                 (AcceptedExtension(f) /\ Verifies(fs[s].sub[c][f])) =>
                     (f \in listdir(fs'[s].sub[c]) /\ fs'[s].sub[c][f] = fs[s].sub[c][f])
        /\ \A s \in Splits : Cleaned(s)' =>
             \A c \in DOMAIN fs'[s].sub : \A f \in listdir(fs'[s].sub[c]) :
                 AcceptedExtension(f)
      ]_vars

(* C9 *)

\* C9: when step 5 is through with a class that held k files, the class holds
\* exactly max(k, TARGET_COUNT) files, and a class that held TARGET_COUNT files
\* or more is as it was.
C9_ExactlyMaxOfCountAndTarget ==
    \A c \in DOMAIN fs[TRAIN_DIR].sub : Finished(c) =>
        LET k == Cardinality(listdir(DirBefore(c)))
        IN  /\ Cardinality(listdir(DirNow(c))) = Max(k, TARGET_COUNT)
            /\ k >= TARGET_COUNT => DirNow(c) = DirBefore(c)

\* a class below the target has been brought to it by a call in which a
\* generated name collided with a file that was there (its content changed)
C9_Witness ==
    /\ Finished(CAT)
    /\ Cardinality(listdir(DirBefore(CAT))) < TARGET_COUNT
    /\ \E f \in listdir(DirBefore(CAT)) : DirNow(CAT)[f] # DirBefore(CAT)[f]

(* C10 *)

\* no attempt of the call can raise: every candidate source decodes and has an
\* extension the library can write
NoAttemptFails == \A f \in images : ~AttemptFails(f, ClassDir)

\* aug_<n>_<name>, with n written in decimal
AugmentedName(n, name) == AUG_PREFIX \o Digits(n) \o <<95>> \o name

\* the names the directory can ever hold during the call: those it holds and
\* aug_<n>_<name> for every suffix and every name read at the start
AvailableNames ==
    listdir(ClassDir) \cup { AugmentedName(n, f) : n \in Suffixes, f \in images }

\* C10 as stated: a call on a non-empty directory in which no attempt raises
\* eventually returns, for every target count, under fair random draws.
C10_TerminatesForEveryTarget ==
    (pc = "aug" /\ images # {} /\ NoAttemptFails) ~> (pc = "step5")

\* C10 as amended: ... provided the target count does not exceed the number of
\* names the directory can hold (the files present and aug_<n>_<name> for the
\* names read at the start); beyond that the loop never ends, with no error.
C10_TerminatesWhenNamesSuffice ==
    (pc = "aug" /\ images # {} /\ NoAttemptFails
        /\ target_count <= Cardinality(AvailableNames)) ~> (pc = "step5")

\* a call on a non-empty directory in which no attempt raises has created
\* files and returned
C10_Witness ==
    /\ pc = "step5"
    /\ images # {}
    /\ NoAttemptFails
    /\ Cardinality(Created) >= 2

=============================================================================
